---- MODULE Spec2Model ----
(***************************************************************************)
(* Model of dev/scripts/update_version_announcement.py: the upsert of a    *)
(* VersionAnnouncement record into the VERSION_ANNOUNCEMENTS array of      *)
(* src/announcements.rs, and the main() driver that reads and rewrites the *)
(* file.                                                                   *)
(*                                                                         *)
(* Text is a sequence of symbols.  Characters that the code treats         *)
(* individually (backslash, double quote, newline, braces, brackets,       *)
(* semicolon, comma, letters) are one symbol each; the fixed literals the  *)
(* regular expressions and the renderer use as a whole (the array marker,  *)
(* "VersionAnnouncement", the field names, the comment line, runs of       *)
(* blanks) are one symbol each.                                            *)
(***************************************************************************)
EXTENDS Integers, Sequences, FiniteSets, TLC

BS == "\\"
QT == "\""
NL == "\n"
SP == " "
INDENT4 == "    "
INDENT8 == "        "
MARKER == "pub const VERSION_ANNOUNCEMENTS: &[VersionAnnouncement] = &["
VA == "VersionAnnouncement"
F_VERSION == "version:"
F_TITLE == "title:"
F_CONTENT == "content:"
COMMENT_LINE == "// Add version-specific announcements here"

\* \s of the regular expressions
Whitespace == {SP, INDENT4, INDENT8, NL}

\* ASCII letters of the value alphabet that re's template parser knows as escapes
TemplateEscapeLetters == {"n"}
\* symbols that begin with an ASCII letter that is not an escape (bad escape)
OtherLetters == {"x", F_CONTENT, VA, MARKER}
GroupDigits == {"1", "2", "3"}

----------------------------------------------------------------------------
(* String helpers: str.replace, str.join, slicing *)

IsAt(s, i, pat) ==
    /\ i + Len(pat) - 1 <= Len(s)
    /\ \A k \in 1..Len(pat) : s[i + k - 1] = pat[k]

RECURSIVE ReplaceFrom(_, _, _, _)
ReplaceFrom(s, i, old, new) ==
    IF i > Len(s) THEN <<>>
    ELSE IF IsAt(s, i, old) THEN new \o ReplaceFrom(s, i + Len(old), old, new)
    ELSE <<s[i]>> \o ReplaceFrom(s, i + 1, old, new)

\* s.replace(old, new), old non-empty
StrReplace(s, old, new) == ReplaceFrom(s, 1, old, new)

MinOf(S) == CHOOSE i \in S : \A j \in S : i <= j
MaxOf(S) == CHOOSE i \in S : \A j \in S : j <= i

\* smallest index i >= from with s[i] = ch, or 0
FirstIn(S) == IF S = {} THEN 0 ELSE MinOf(S)

IndexOf(s, from, ch) == FirstIn({i \in from..Len(s) : s[i] = ch})

\* first index >= from that is not whitespace (Len(s)+1 if none)
SkipWs(s, from) ==
    MinOf({i \in from..(Len(s) + 1) : i = Len(s) + 1 \/ s[i] \notin Whitespace})

\* concatenation of the pieces ps[lo..hi], in order
RECURSIVE ConcatRange(_, _, _)
ConcatRange(ps, lo, hi) ==
    IF lo > hi THEN <<>>
    ELSE IF lo = hi THEN ps[lo]
    ELSE ConcatRange(ps, lo, (lo + hi) \div 2)
         \o ConcatRange(ps, (lo + hi) \div 2 + 1, hi)

Concat(ps) == ConcatRange(ps, 1, Len(ps))

\* sep.join(lines)
Join(lines, sep) ==
    Concat([i \in 1..Len(lines) |->
               IF i = 1 THEN lines[i] ELSE sep \o lines[i]])

----------------------------------------------------------------------------
(* escape_rust_string *)

RECURSIVE escape_rust_string(_)
escape_rust_string(s) ==
    IF Len(s) = 0 THEN <<>>
    ELSE (IF Head(s) = BS THEN <<BS, BS>>
          ELSE IF Head(s) = QT THEN <<BS, QT>>
          ELSE <<Head(s)>>) \o escape_rust_string(Tail(s))

(* unescape, the closure inside parse_announcements *)
RECURSIVE unescape_from(_, _)
unescape_from(s, i) ==
    IF i > Len(s) THEN <<>>
    ELSE IF s[i] = BS /\ i + 1 <= Len(s) THEN
        IF s[i + 1] = "n" THEN <<NL>> \o unescape_from(s, i + 2)
        ELSE IF s[i + 1] = BS THEN <<BS>> \o unescape_from(s, i + 2)
        ELSE IF s[i + 1] = QT THEN <<QT>> \o unescape_from(s, i + 2)
        ELSE <<s[i]>> \o unescape_from(s, i + 1)
    ELSE <<s[i]>> \o unescape_from(s, i + 1)

unescape(s) == unescape_from(s, 1)

----------------------------------------------------------------------------
(* parse_announcements: locating the array *)

\* re.search(pattern, content, re.DOTALL) for the array pattern, scanning
\* from position pos: the leftmost marker that is followed somewhere by "];",
\* with the non-greedy (.*?) ending at the first "];" after it.
CloseFrom(s, from) ==
    FirstIn({i \in from..(Len(s) - 1) : s[i] = "]" /\ s[i + 1] = ";"})

ArraySpan(st, cl) ==
    IF st = 0 \/ cl = 0
    THEN [found |-> FALSE, start |-> 0, close |-> 0, end |-> 0]
    ELSE [found |-> TRUE, start |-> st, close |-> cl, end |-> cl + 1]

ArrayFrom(s, st) == ArraySpan(st, IF st = 0 THEN 0 ELSE CloseFrom(s, st + 1))

ArraySearch(s, pos) == ArrayFrom(s, IndexOf(s, pos, MARKER))

\* match.group(1)
ArrayContent(s, m) == SubSeq(s, m.start + 1, m.close - 1)

(* parse_announcements: ann_pattern *)
(*   VersionAnnouncement\s*\{                                              *)
(*   [^}]*version:\s*"([^"]+)" [^}]*title:\s*"([^"]+)"                     *)
(*   [^}]*content:\s*"([^"]+)" [^}]*\}                                     *)
(* The only choice in a match is which occurrence of a field name ends a   *)
(* greedy [^}]*: the engine tries the rightmost first and backs off to the *)
(* left while the rest of the pattern fails.                               *)

NoAnn == [ok |-> FALSE, version |-> <<>>, title |-> <<>>, content |-> <<>>,
          start |-> 0, end |-> 0]

\* positions of keyword kw reachable from `from` through [^}]*
CandidatesUpTo(a, from, kw, e) ==
    {i \in from..(IF e = 0 THEN Len(a) ELSE e - 1) : a[i] = kw}

Candidates(a, from, kw) == CandidatesUpTo(a, from, kw, IndexOf(a, from, "}"))

\* "([^"]+)" with the opening quote expected at q and the next quote at c
QuotedBetween(a, k, q, c) ==
    IF c > q + 1
    THEN [ok |-> TRUE, k |-> k, vs |-> q + 1, ve |-> c - 1, next |-> c + 1]
    ELSE [ok |-> FALSE, k |-> k, vs |-> 0, ve |-> 0, next |-> 0]

QuotedFrom(a, k, q) ==
    QuotedBetween(a, k, q,
                  IF q <= Len(a) /\ a[q] = QT THEN IndexOf(a, q + 1, QT) ELSE 0)

\* kw\s*"([^"]+)" with the keyword at position k
QuotedAt(a, k) == QuotedFrom(a, k, SkipWs(a, k + 1))

\* the keyword positions of K that are followed by \s*"([^"]+)"
Quoted(a, K) == {q \in {QuotedAt(a, k) : k \in K} : q.ok}

\* of the ways H to match a field, each with the match of the rest of the
\* pattern, the one the engine returns
Rightmost(H) == CHOOSE h \in H : \A g \in H : g.q.k <= h.q.k

Greedy(H) ==
    IF \A h \in H : ~h.rest.ok
    THEN [ok |-> FALSE]
    ELSE [ok |-> TRUE] @@ Rightmost({h \in H : h.rest.ok})

\* [^}]*\}
BraceAt(e) == [ok |-> e # 0, end |-> e]

CloseBrace(a, from) == BraceAt(IndexOf(a, from, "}"))

\* [^}]*content:\s*"([^"]+)"[^}]*\}
ContentMatch(a, from) ==
    Greedy({[q |-> q, rest |-> CloseBrace(a, q.next)] :
               q \in Quoted(a, Candidates(a, from, F_CONTENT))})

\* [^}]*title:\s*"([^"]+)" and the rest
TitleMatch(a, from) ==
    Greedy({[q |-> q, rest |-> ContentMatch(a, q.next)] :
               q \in Quoted(a, Candidates(a, from, F_TITLE))})

\* [^}]*version:\s*"([^"]+)" and the rest
VersionMatch(a, from) ==
    Greedy({[q |-> q, rest |-> TitleMatch(a, q.next)] :
               q \in Quoted(a, Candidates(a, from, F_VERSION))})

\* the match object: groups 1..3 and the span
AnnOf(a, s, v) ==
    IF v.ok
    THEN [ok |-> TRUE,
          version |-> SubSeq(a, v.q.vs, v.q.ve),
          title   |-> SubSeq(a, v.rest.q.vs, v.rest.q.ve),
          content |-> SubSeq(a, v.rest.rest.q.vs, v.rest.rest.q.ve),
          start |-> s, end |-> v.rest.rest.rest.end]
    ELSE NoAnn

\* VersionAnnouncement\s*\{ with the brace expected at b
AnnWithBrace(a, s, b) ==
    IF b <= Len(a) /\ a[b] = "{" THEN AnnOf(a, s, VersionMatch(a, b + 1))
    ELSE NoAnn

\* the whole ann_pattern anchored at position s, where a[s] = VA
AnnMatchAt(a, s) == AnnWithBrace(a, s, SkipWs(a, s + 1))

\* re.finditer(ann_pattern, array_content, re.DOTALL): successive leftmost
\* matches, each search resuming after the previous match
RECURSIVE FindAnnFrom(_, _)
AnnOrNext(a, s, m) == IF m.ok THEN m ELSE FindAnnFrom(a, s + 1)

AnnFromVA(a, s) == IF s = 0 THEN NoAnn ELSE AnnOrNext(a, s, AnnMatchAt(a, s))

FindAnnFrom(a, pos) == AnnFromVA(a, IndexOf(a, pos, VA))

RECURSIVE FindIter(_, _)
IterFrom(a, m) == IF m.ok THEN <<m>> \o FindIter(a, m.end + 1) ELSE <<>>

FindIter(a, pos) == IterFrom(a, FindAnnFrom(a, pos))

\* the announcements list built by the loop over finditer
Decoded(ms) ==
    [i \in 1..Len(ms) |->
        [version |-> unescape(ms[i].version),
         title   |-> unescape(ms[i].title),
         content |-> unescape(ms[i].content)]]

\* parse_announcements(content): raises ValueError when the array pattern
\* does not match, else returns the decoded records
ParsedArray(doc, m) ==
    IF ~m.found THEN [err |-> "ValueError", announcements |-> <<>>]
    ELSE [err |-> "none",
          announcements |-> Decoded(FindIter(ArrayContent(doc, m), 1))]

parse_announcements(doc) == ParsedArray(doc, ArraySearch(doc, 1))

----------------------------------------------------------------------------
(* update_announcement: upsert *)

\* index of the first record whose version equals `version`, 0 for None
RECURSIVE ExistingIdxFrom(_, _, _)
ExistingIdxFrom(anns, idx, version) ==
    IF idx > Len(anns) THEN 0
    ELSE IF anns[idx].version = version THEN idx
    ELSE ExistingIdxFrom(anns, idx + 1, version)

existing_idx(anns, version) == ExistingIdxFrom(anns, 1, version)

UpsertAt(anns, idx, version, title, content) ==
    IF idx # 0
    THEN [anns EXCEPT ![idx].title = title, ![idx].content = content]
    ELSE Append(anns, [version |-> version, title |-> title,
                       content |-> content])

\* Upsert that puts a new record first
UpsertInsertFirst(anns, version, title, content) ==
    IF existing_idx(anns, version) # 0
    THEN UpsertAt(anns, existing_idx(anns, version), version, title, content)
    ELSE <<[version |-> version, title |-> title, content |-> content]>>
         \o anns

Upsert(anns, version, title, content) ==
    UpsertAt(anns, existing_idx(anns, version), version, title, content)

(* update_announcement: rebuilding the array text *)

formatted_content(c) ==
    StrReplace(StrReplace(c, <<NL>>, <<BS, BS, "n">>), <<QT>>, <<BS, QT>>)

\* the five lines appended to array_lines for one record
AnnLines(ann) ==
    << <<INDENT4, VA, SP, "{">>,
       <<INDENT8, F_VERSION, SP, QT>> \o escape_rust_string(ann.version) \o <<QT, ",">>,
       <<INDENT8, F_TITLE, SP, QT>> \o escape_rust_string(ann.title) \o <<QT, ",">>,
       <<INDENT8, F_CONTENT, SP, QT>> \o formatted_content(ann.content) \o <<QT, ",">>,
       <<INDENT4, "}", ",">> >>

array_lines(anns) ==
    << <<INDENT4, COMMENT_LINE>> >>
    \o Concat([i \in 1..Len(anns) |-> AnnLines(anns[i])])

\* Replacement without the closing group
ReplacementNoClose(anns) ==
    <<BS, "1", BS, "n">> \o Join(array_lines(anns), <<NL>>) \o <<NL>>

\* replacement = r'\1\n' + "\n".join(array_lines) + "\n" + r'\3'
Replacement(anns) ==
    <<BS, "1", BS, "n">> \o Join(array_lines(anns), <<NL>>) \o <<NL, BS, "3">>

(* re.sub: the replacement is a template.  Its tokenizer reads a backslash *)
(* together with the symbol after it as one token.  A backslash followed by *)
(* a group digit is the group, by "n" a newline, by a backslash one         *)
(* backslash, by another ASCII letter an error (bad escape); any other pair *)
(* is kept as it is.                                                        *)

\* number of consecutive backslashes that end right before position i
LastIn(S) == IF S = {} THEN 0 ELSE MaxOf(S)

BackslashRun(t, i) ==
    IF i = 1 \/ t[i - 1] # BS THEN 0
    ELSE (i - 1) - LastIn({j \in 1..(i - 1) : t[j] # BS})

\* position i is the second symbol of a backslash token
SecondOfPair(t, i) == BackslashRun(t, i) % 2 = 1

\* position i starts a two-symbol backslash token
PairStart(t, i) == t[i] = BS /\ ~SecondOfPair(t, i) /\ i + 1 <= Len(t)

TemplateOk(t) ==
    \A i \in 1..Len(t) : PairStart(t, i) => t[i + 1] \notin OtherLetters

Expand(t, groups) ==
    Concat([i \in 1..Len(t) |->
        IF SecondOfPair(t, i) THEN <<>>
        ELSE IF PairStart(t, i) THEN
            IF t[i + 1] \in GroupDigits THEN groups[t[i + 1]]
            ELSE IF t[i + 1] \in TemplateEscapeLetters THEN <<NL>>
            ELSE IF t[i + 1] = BS THEN <<BS>>
            ELSE <<t[i], t[i + 1]>>
        ELSE <<t[i]>>])

\* groups 1, 2, 3 of the substitution pattern for a match m of s
SubGroups(s, m) ==
    [d \in GroupDigits |->
        IF d = "1" THEN <<s[m.start]>>
        ELSE IF d = "2" THEN ArrayContent(s, m)
        ELSE SubSeq(s, m.close, m.end)]

\* re.sub(pattern, replacement, content, flags=re.DOTALL): every
\* non-overlapping match, left to right, is replaced by the expanded template
RECURSIVE ReSubFrom(_, _, _)
ReSubMatch(s, pos, t, m) ==
    IF ~m.found THEN SubSeq(s, pos, Len(s))
    ELSE SubSeq(s, pos, m.start - 1) \o Expand(t, SubGroups(s, m))
         \o ReSubFrom(s, m.end + 1, t)

ReSubFrom(s, pos, t) == ReSubMatch(s, pos, t, ArraySearch(s, pos))

ReSub(t, s) == ReSubFrom(s, 1, t)

\* update_announcement, from re.sub on: a bad escape in the replacement
\* raises re.error
Substituted(doc, parsed, found, anns, t) ==
    IF ~TemplateOk(t)
    THEN [err |-> "re.error", parsed |-> parsed, announcements |-> anns,
          was_update |-> found, new_content |-> <<>>]
    ELSE [err |-> "none", parsed |-> parsed, announcements |-> anns,
          was_update |-> found, new_content |-> ReSub(t, doc)]

\* update_announcement, from the parsed announcements on
Updated(doc, version, title, content, p) ==
    IF p.err # "none"
    THEN [err |-> p.err, parsed |-> <<>>, announcements |-> <<>>,
          was_update |-> FALSE, new_content |-> <<>>]
    ELSE Substituted(doc, p.announcements,
                     existing_idx(p.announcements, version) # 0,
                     Upsert(p.announcements, version, title, content),
                     Replacement(Upsert(p.announcements, version, title, content)))

\* update_announcement(content, version, title, announcement_content)
update_announcement(doc, version, title, content) ==
    Updated(doc, version, title, content, parse_announcements(doc))

----------------------------------------------------------------------------
(* Bounds and inputs *)

\* number of runs of the script that are explored
MaxCalls == 2

\* one rendered record block followed by a newline, as it stands in a file
Block(version, title, content) ==
    Join(AnnLines([version |-> version, title |-> title, content |-> content]),
         <<NL>>) \o <<NL>>

Header == <<"x", NL, MARKER, NL, INDENT4, COMMENT_LINE, NL>>
Footer == <<"]", ";", NL, "x", NL>>

\* announcements.rs as the script may find it
DocEmpty == Header \o Footer
DocOne == Header \o Block(<<"n">>, <<"x">>, <<"x">>) \o Footer
DocTwo ==
    Header \o Block(<<"n">>, <<"x">>, <<"x", BS, "n", "x">>)
           \o Block(<<"x">>, <<"x">>, <<"x">>) \o Footer
\* a record whose title field is missing, before a well-formed one
DocMissingField ==
    Header \o <<INDENT4, VA, SP, "{", NL,
                INDENT8, F_VERSION, SP, QT, "n", QT, ",", NL,
                INDENT8, F_CONTENT, SP, QT, "x", QT, ",", NL,
                INDENT4, "}", ",", NL>>
           \o Block(<<"x">>, <<"x">>, <<"x">>) \o Footer
\* a record whose content holds the text "];", as the script writes it
DocBracketInContent ==
    Header \o Block(<<"n">>, <<"x">>, <<"x", "]", ";", "x">>) \o Footer
DocNoArray == <<"x", NL, "x", NL>>
DocUnterminated == Header \o Block(<<"n">>, <<"x">>, <<"x">>) \o <<"]", NL>>
DocTwoArrays == Header \o Footer \o <<MARKER, NL, "]", ";", NL>>

Documents ==
    {DocEmpty, DocOne, DocTwo, DocMissingField, DocBracketInContent,
     DocNoArray, DocUnterminated, DocTwoArrays}

\* command line arguments <version> <title> <content>
Versions == {<<"x">>, <<"x", QT>>, <<>>}
Titles == {<<"n">>, <<>>}
Contents == {<<"x">>, <<"x", QT, "n">>, <<"x", BS, "n">>, <<BS, "x">>, <<>>}
\* "args": <version> <title> <content>; "file": <version> <title> --file <file>
Modes == {"args", "file"}

----------------------------------------------------------------------------
(* main *)

VARIABLES
    file,          \* content of ANNOUNCEMENTS_FILE on disk
    pc,            \* position of main
    calls,         \* runs of the script started so far
    dry_run,
    version, title, content,
    file_content,
    new_content,
    parsed,        \* announcements as returned by parse_announcements
    announcements, \* announcements after the update-or-add step
    was_update,    \* existing_idx is not None
    err,           \* why the run ended in sys.exit(1), "none" otherwise
    file0,         \* history: content of the file when the run started
    repeat         \* history: this run repeats the command of the previous
                   \* run, which wrote its result

vars == <<file, pc, calls, dry_run, version, title, content, file_content,
          new_content, parsed, announcements, was_update, err, file0, repeat>>

Init ==
    /\ file \in Documents
    /\ pc = "idle"
    /\ calls = 0
    /\ dry_run = FALSE
    /\ version = <<>> /\ title = <<>> /\ content = <<>>
    /\ file_content = <<>>
    /\ new_content = <<>>
    /\ parsed = <<>>
    /\ announcements = <<>>
    /\ was_update = FALSE
    /\ err = "none"
    /\ file0 = file
    /\ repeat = FALSE

\* content as main hands it to update_announcement: with three arguments the
\* two characters backslash, n become a newline; a file is read as it is
ContentArg(mode, c) ==
    IF mode = "args" THEN StrReplace(c, <<BS, "n">>, <<NL>>) ELSE c

\* the check that version, title and content are given, for a run with
\* these arguments
Begin(d, v, t, c, again) ==
    /\ calls < MaxCalls
    /\ calls' = calls + 1
    /\ dry_run' = d
    /\ version' = v
    /\ title' = t
    /\ content' = c
    /\ file0' = file
    /\ repeat' = again
    /\ file_content' = <<>>
    /\ new_content' = <<>>
    /\ parsed' = <<>>
    /\ announcements' = <<>>
    /\ was_update' = FALSE
    /\ IF v = <<>> \/ t = <<>> \/ c = <<>>
       THEN pc' = "exit1" /\ err' = "InvalidInput"
       ELSE pc' = "started" /\ err' = "none"
    /\ UNCHANGED file

\* the script is started with arguments of the operator's choice
Start(d, mode, v, t, c) ==
    /\ pc = "idle"
    /\ Begin(d, v, t, ContentArg(mode, c), FALSE)

\* the same command is run once more after a run that wrote its result
Rerun ==
    /\ pc = "done"
    /\ ~dry_run
    /\ Begin(dry_run, version, title, content, TRUE)

\* the process has ended; its variables are gone
Exit ==
    /\ pc \in {"done", "exit1", "interrupted"}
    /\ pc' = "idle"
    /\ dry_run' = FALSE
    /\ version' = <<>> /\ title' = <<>> /\ content' = <<>>
    /\ file_content' = <<>>
    /\ new_content' = <<>>
    /\ parsed' = <<>>
    /\ announcements' = <<>>
    /\ was_update' = FALSE
    /\ err' = "none"
    /\ file0' = file
    /\ repeat' = FALSE
    /\ UNCHANGED <<file, calls>>

\* with open(ANNOUNCEMENTS_FILE, "r") as f: file_content = f.read()
ReadFile ==
    /\ pc = "started"
    /\ file_content' = file
    /\ pc' = "read"
    /\ UNCHANGED <<file, calls, dry_run, version, title, content, new_content,
                   parsed, announcements, was_update, err, file0, repeat>>

\* Update with the file opened for writing before the update is computed
UpdateOpensFirst ==
    /\ pc = "read"
    /\ \E r \in {update_announcement(file_content, version, title, content)} :
           /\ parsed' = r.parsed
           /\ announcements' = r.announcements
           /\ was_update' = r.was_update
           /\ new_content' = r.new_content
           /\ err' = r.err
           /\ pc' = IF r.err = "none" THEN "updated" ELSE "exit1"
    /\ file' = <<>>
    /\ UNCHANGED <<calls, dry_run, version, title, content, file_content,
                   file0, repeat>>

\* try: new_content = update_announcement(...) except Exception: sys.exit(1)
Update ==
    /\ pc = "read"
    /\ \E r \in {update_announcement(file_content, version, title, content)} :
           /\ parsed' = r.parsed
           /\ announcements' = r.announcements
           /\ was_update' = r.was_update
           /\ new_content' = r.new_content
           /\ err' = r.err
           /\ pc' = IF r.err = "none" THEN "updated" ELSE "exit1"
    /\ UNCHANGED <<file, calls, dry_run, version, title, content, file_content,
                   file0, repeat>>

\* if dry_run: the diff is printed, nothing is written
DryRun ==
    /\ pc = "updated"
    /\ dry_run
    /\ pc' = "done"
    /\ UNCHANGED <<file, calls, dry_run, version, title, content, file_content,
                   new_content, parsed, announcements, was_update, err, file0,
                   repeat>>

\* open(ANNOUNCEMENTS_FILE, "w"): the file is truncated
OpenForWrite ==
    /\ pc = "updated"
    /\ ~dry_run
    /\ file' = <<>>
    /\ pc' = "opened"
    /\ UNCHANGED <<calls, dry_run, version, title, content, file_content,
                   new_content, parsed, announcements, was_update, err, file0,
                   repeat>>

\* f.write(new_content): the buffered writer hands a first part to the file
WritePart ==
    /\ pc = "opened"
    /\ file' = SubSeq(new_content, 1, Len(new_content) \div 2)
    /\ pc' = "writing"
    /\ UNCHANGED <<calls, dry_run, version, title, content, file_content,
                   new_content, parsed, announcements, was_update, err, file0,
                   repeat>>

\* the rest is flushed, the file is closed
WriteRest ==
    /\ pc \in {"opened", "writing"}
    /\ file' = new_content
    /\ pc' = "done"
    /\ UNCHANGED <<calls, dry_run, version, title, content, file_content,
                   new_content, parsed, announcements, was_update, err, file0,
                   repeat>>

\* the process is killed, or the write fails, while the file is open
Interrupt ==
    /\ pc \in {"opened", "writing"}
    /\ pc' = "interrupted"
    /\ UNCHANGED <<file, calls, dry_run, version, title, content, file_content,
                   new_content, parsed, announcements, was_update, err, file0,
                   repeat>>

Next ==
    \/ \E d \in BOOLEAN, mode \in Modes, v \in Versions, t \in Titles,
          c \in Contents : Start(d, mode, v, t, c)
    \/ Rerun
    \/ Exit
    \/ ReadFile
    \/ Update
    \/ DryRun
    \/ OpenForWrite
    \/ WritePart
    \/ WriteRest
    \/ Interrupt

Spec == Init /\ [][Next]_vars

----------------------------------------------------------------------------
(* Properties *)

Range(q) == {q[i] : i \in 1..Len(q)}

\* the document holds exactly one array marker
OneArray(doc) == Cardinality({i \in 1..Len(doc) : doc[i] = MARKER}) = 1

\* C1: when update_announcement returns a document for an input with exactly
\* one VERSION_ANNOUNCEMENTS array, the text up to and including the array's
\* opening bracket and the text from the closing bracket on are the same in
\* the input and in the result.
C1_FrameUnchanged ==
    (pc = "updated" /\ OneArray(file_content)) =>
        \A m \in {ArraySearch(file_content, 1)} :
            LET tailLen == Len(file_content) - m.close + 1
                n == Len(new_content)
            IN  /\ n >= m.start + tailLen
                /\ SubSeq(new_content, 1, m.start)
                     = SubSeq(file_content, 1, m.start)
                /\ SubSeq(new_content, n - tailLen + 1, n)
                     = SubSeq(file_content, m.close, Len(file_content))

C1_Witness ==
    /\ pc = "updated"
    /\ OneArray(file_content)
    /\ Len(parsed) >= 1
    /\ new_content # file_content

\* C2: after update_announcement has written a record, parse_announcements
\* on the resulting document returns a record with exactly the given key,
\* title and content.
C2_RoundTrip ==
    pc = "updated" =>
        [version |-> version, title |-> title, content |-> content]
            \in Range(parse_announcements(new_content).announcements)

\* C3: a second run with the same key, title and content on the result of
\* the first takes the update branch and returns the same document.
C3_Idempotent ==
    (repeat /\ pc \in {"updated", "exit1"}) =>
        (pc = "updated" /\ was_update /\ new_content = file_content)

\* the texts of the record blocks found in the array of a document
BlockTexts(doc) ==
    LET a  == ArrayContent(doc, ArraySearch(doc, 1))
        ms == FindIter(a, 1)
    IN  [j \in 1..Len(ms) |-> SubSeq(a, ms[j].start, ms[j].end)]

\* C4: an update of the record at position i leaves n records, and every
\* other record at its position with its key, title, content and text.
C4_OrderPreserved ==
    (pc = "updated" /\ was_update) =>
        \A q \in {parse_announcements(new_content).announcements} :
            LET i == existing_idx(parsed, version)
            IN  /\ Len(q) = Len(parsed)
                /\ q[i].version = parsed[i].version
                /\ \A j \in 1..Len(parsed) : j # i => q[j] = parsed[j]
                /\ \A j \in 1..Len(parsed) : j # i =>
                       BlockTexts(new_content)[j] = BlockTexts(file_content)[j]

C6_KeyUnique ==
    (pc = "done" /\ ~dry_run) =>
        \A q \in {parse_announcements(file).announcements} :
            \A i, j \in 1..Len(q) : q[i].version = q[j].version => i = j

\* the content field of the given record as re.sub writes it
WrittenContent ==
    Expand(formatted_content(content),
           SubGroups(file_content, ArraySearch(file_content, 1)))

\* C7: the content field that update_announcement writes holds no line break.
C7_SingleLine ==
    pc = "updated" => NL \notin Range(WrittenContent)

\* C8: a run that ends in an error has produced no document and has left the
\* file as it was when the run started.
C8_NoWriteOnError ==
    pc = "exit1" => (file = file0 /\ new_content = <<>>)

C8_Witness ==
    /\ pc = "exit1"
    /\ err = "re.error"
    /\ Len(parsed) >= 1
    /\ file # <<>>

\* C9: a record block of the array that cannot be parsed makes the run fail;
\* when update_announcement returns a document, every block that starts
\* with VersionAnnouncement in the input array was parsed.
C9_NoSilentLoss ==
    pc = "updated" =>
        \A a \in {ArrayContent(file_content, ArraySearch(file_content, 1))} :
            Cardinality({i \in 1..Len(a) : a[i] = VA}) = Len(parsed)

\* C10: while main writes the result back, the file holds the complete
\* previous document or the complete new document.
C10_AllOrNothing ==
    pc \in {"opened", "writing", "done", "interrupted"} =>
        (file = file0 \/ file = new_content)

\* position i of doc lies inside a double-quoted value that was opened after
\* position from: an odd number of quotes, not counting escaped ones, lie
\* between them
InQuotedValue(doc, from, i) ==
    Cardinality({j \in (from + 1)..(i - 1) :
                    doc[j] = QT /\ BackslashRun(doc, j) % 2 = 0}) % 2 = 1

\* C11: the closing bracket that ends the located array is the one that
\* matches the opening bracket: it is never text inside a quoted field value
\* of a record.
C11_QuoteAwareBoundary ==
    pc = "updated" =>
        \A m \in {ArraySearch(file_content, 1)} :
            ~InQuotedValue(file_content, m.start, m.close)

====
